---- MODULE Spec2Model ----
(***************************************************************************)
(* ProbeMapper (src/src/ProbeMapper.py): conversion of an Omnetics probe   *)
(* channel ordering to Intan headstage channel numbering.  One request is  *)
(* the construction of a ProbeMapper followed by compute().                *)
(*                                                                         *)
(* Python lists are sequences; a Python index i is the sequence index i+1. *)
(* Text that the program builds from integers (the lines of the .txt file) *)
(* is a sequence of one-character strings.                                 *)
(***************************************************************************)
EXTENDS Integers, Sequences, FiniteSets, TLC

(***************************************************************************)
(* Bounds of the explored inputs.                                          *)
(***************************************************************************)
\* channel_map inputs are the identity order rotated left by 0..MaxRot
MaxRot == 1
\* chan_per_shank inputs split the channels into 1..MaxShanks equal shanks
MaxShanks == 2

(***************************************************************************)
(* Generic helpers                                                         *)
(***************************************************************************)
Range(s) == {s[i] : i \in DOMAIN s}

Min2(a, b) == IF a < b THEN a ELSE b

Max2(a, b) == IF a > b THEN a ELSE b

\* Python's sum() over a list of integers
RECURSIVE Sum(_)
Sum(s) == IF s = <<>> THEN 0 ELSE Head(s) + Sum(Tail(s))

\* Python's reversed()
Reversed(s) == [i \in 1..Len(s) |-> s[Len(s) + 1 - i]]

\* Python's s[start:end] (step 1): a negative bound counts from the end,
\* both bounds are clamped to the list, an empty range gives the empty list.
PySlice(s, start, end) ==
    LET n  == Len(s)
        lo == IF start < 0 THEN Max2(start + n, 0) ELSE Min2(start, n)
        hi == IF end < 0 THEN Max2(end + n, 0) ELSE Min2(end, n)
    IN  IF lo >= hi THEN <<>> ELSE SubSeq(s, lo + 1, hi)

\* Concatenation of a sequence of sequences
RECURSIVE Flatten(_)
Flatten(ss) == IF ss = <<>> THEN <<>> ELSE Head(ss) \o Flatten(Tail(ss))

(***************************************************************************)
(* Layout and the two fixed layout tables                                  *)
(***************************************************************************)
Layout(name, pins) == [name |-> name, pins |-> pins]

\* the constructor raised before the attribute was assigned
NoLayout == Layout("", <<>>)

\* a flipped view that returns the stored order
flipped_keeps_order(layout) == layout.pins

\* Layout.flipped
flipped(layout) == Reversed(layout.pins)

Intan16 ==
    Layout("intan16", <<11, 10, 9, 8, 7, 6, 5, 4, 12, 13, 14, 15, 0, 1, 2, 3>>)

Intan32 ==
    Layout("intan32",
        <<23, 22, 21, 20, 19, 18, 17, 16, 15, 14, 13, 12, 11, 10, 9, 8,
          24, 25, 26, 27, 28, 29, 30, 31, 0, 1, 2, 3, 4, 5, 6, 7>>)

Intan64 ==
    Layout("intan64",
        <<46, 44, 42, 40, 38, 36, 34, 32, 30, 28, 26, 24, 22, 20, 18, 16,
          47, 45, 43, 41, 39, 37, 35, 33, 31, 29, 27, 25, 23, 21, 19, 17,
          49, 51, 53, 55, 57, 59, 61, 63, 1, 3, 5, 7, 9, 11, 13, 15,
          48, 50, 52, 54, 56, 58, 60, 62, 0, 2, 4, 6, 8, 10, 12, 14>>)

\* a table whose 32-channel entry was left out
IntanLayoutsMissing32 == (16 :> Intan16) @@ (64 :> Intan64)

\* a table whose 16-channel entry repeats a pin (10 typed for 9)
IntanLayoutsRepeatedPin ==
    (16 :> Layout("intan16",
             <<11, 10, 10, 8, 7, 6, 5, 4, 12, 13, 14, 15, 0, 1, 2, 3>>))
    @@ (32 :> Intan32) @@ (64 :> Intan64)

INTAN_LAYOUTS == (16 :> Intan16) @@ (32 :> Intan32) @@ (64 :> Intan64)

NeuronexusH16 ==
    Layout("neuronexus_H16",
        <<14, 15, 9, 16, 1, 8, 2, 3, 12, 11, 10, 13, 4, 7, 6, 5>>)

NeuronexusH32 ==
    Layout("neuronexus_H32",
        <<18, 27, 28, 29, 17, 30, 31, 32, 1, 2, 3, 16, 4, 5, 6, 15,
          20, 21, 22, 23, 19, 24, 25, 26, 7, 8, 9, 14, 10, 11, 12, 13>>)

NeuronexusH64 ==
    Layout("neuronexus_H64",
        <<34, 43, 44, 45, 33, 46, 47, 48, 17, 18, 19, 32, 20, 21, 22, 31,
          42, 41, 40, 35, 39, 38, 37, 36, 29, 28, 27, 26, 30, 25, 24, 23,
          64, 62, 60, 58, 56, 54, 52, 50, 15, 13, 11, 9, 7, 5, 3, 1,
          63, 61, 59, 57, 55, 53, 51, 49, 16, 14, 12, 10, 8, 6, 4, 2>>)

NeuronexusH64LP ==
    Layout("neuronexus_H64LP",
        <<37, 39, 40, 42, 43, 45, 46, 48, 17, 19, 20, 22, 23, 25, 26, 28,
          36, 38, 35, 41, 34, 44, 33, 47, 18, 32, 21, 31, 24, 30, 27, 29,
          64, 62, 60, 58, 56, 54, 52, 50, 15, 13, 11, 9, 7, 5, 3, 1,
          63, 61, 59, 57, 55, 53, 51, 49, 16, 14, 12, 10, 8, 6, 4, 2>>)

OMNETICS_LAYOUTS ==
    (<<"neuronexus", "H16">> :> NeuronexusH16)
    @@ (<<"neuronexus", "H32">> :> NeuronexusH32)
    @@ (<<"neuronexus", "H64">> :> NeuronexusH64)
    @@ (<<"neuronexus", "H64LP">> :> NeuronexusH64LP)

(***************************************************************************)
(* Errors.  kind is the exception and its message, about the values the    *)
(* message is formatted from, known the alternatives it lists.             *)
(***************************************************************************)
Error(kind, about, known) == [kind |-> kind, about |-> about, known |-> known]

NoError == Error("none", <<>>, {})

Raised(e) == e.kind # "none"

UNSUPPORTED == "ValueError: Unsupported probe/connector"

NO_INTAN == "ValueError: No Intan layout"

LENGTH_MISMATCH == "ValueError: channel_map length must match Omnetics layout length"

SUM_MISMATCH == "ValueError: chan_per_shank must sum to the total number of channels"

BAD_SUFFIXES == "ValueError: version_suffixes must be a pair of non-empty strings"

KEY_ERROR == "KeyError"

INDEX_ERROR == "IndexError"

(***************************************************************************)
(* str.lower() and str.upper() on the probe_type / probe_connector inputs  *)
(* explored below.                                                         *)
(***************************************************************************)
lower(s) ==
    CASE s = "NeuroNexus" -> "neuronexus"
      [] s = "Cambridge"  -> "cambridge"
      [] OTHER            -> s

upper(s) ==
    CASE s = "h16"   -> "H16"
      [] s = "h64lp" -> "H64LP"
      [] OTHER       -> s

(***************************************************************************)
(* Constructor helpers                                                     *)
(***************************************************************************)
\* f"{k[0]}-{k[1]}"
KeyLabel(k) == <<k[1], "-", k[2]>>

\* _require_omnetics_layout; the sorted, joined list of labels is kept as
\* the set of labels it is built from
require_omnetics_layout(key) ==
    IF key \notin DOMAIN OMNETICS_LAYOUTS
    THEN [err |-> Error(UNSUPPORTED, key,
                    {KeyLabel(k) : k \in DOMAIN OMNETICS_LAYOUTS}),
          layout |-> NoLayout]
    ELSE [err |-> NoError, layout |-> OMNETICS_LAYOUTS[key]]

\* _require_intan_layout
require_intan_layout(omnetics) ==
    LET pin_count == Len(omnetics.pins)
    IN  IF pin_count \notin DOMAIN INTAN_LAYOUTS
        THEN [err |-> Error(NO_INTAN, <<pin_count>>, DOMAIN INTAN_LAYOUTS),
              layout |-> NoLayout]
        ELSE [err |-> NoError, layout |-> INTAN_LAYOUTS[pin_count]]

\* a length validation that lets every request through
validate_lengths_none(cm, cps, omnetics) == NoError

\* _validate_lengths
validate_lengths(cm, cps, omnetics) ==
    IF Len(cm) # Len(omnetics.pins)
    THEN Error(LENGTH_MISMATCH, <<Len(cm), Len(omnetics.pins)>>, {})
    ELSE IF Sum(cps) # Len(cm)
         THEN Error(SUM_MISMATCH, <<>>, {})
         ELSE NoError

\* _validate_version_suffixes ("not v" is true of the empty string only)
validate_version_suffixes(vs) ==
    IF Len(vs) # 2 \/ \E i \in DOMAIN vs : vs[i] = ""
    THEN Error(BAD_SUFFIXES, <<>>, {})
    ELSE NoError

\* a constructor that validates version_suffixes before it looks the
\* layouts up
init_validation_suffixes_first(key, cm, cps, vs) ==
    LET o == require_omnetics_layout(key)
        i == require_intan_layout(o.layout)
        l == validate_lengths(cm, cps, o.layout)
        v == validate_version_suffixes(vs)
        Outcome(e, ol, il, c) ==
            [err |-> e, omnetics |-> ol, intan |-> il, calls |-> c]
    IN  IF Raised(v)
        THEN Outcome(v, NoLayout, NoLayout, <<"_validate_version_suffixes">>)
        ELSE IF Raised(o.err)
        THEN Outcome(o.err, NoLayout, NoLayout,
                 <<"_validate_version_suffixes", "_require_omnetics_layout">>)
        ELSE IF Raised(i.err)
        THEN Outcome(i.err, o.layout, NoLayout,
                 <<"_validate_version_suffixes", "_require_omnetics_layout",
                   "_require_intan_layout">>)
        ELSE Outcome(l, o.layout, i.layout,
                 <<"_validate_version_suffixes", "_require_omnetics_layout",
                   "_require_intan_layout", "_validate_lengths">>)

\* The validation part of __init__ (lines 244-247): the helpers it reaches,
\* in order, the first error raised and the layouts assigned before it.
init_validation(key, cm, cps, vs) ==
    LET o == require_omnetics_layout(key)
        i == require_intan_layout(o.layout)
        l == validate_lengths(cm, cps, o.layout)
        v == validate_version_suffixes(vs)
        Outcome(e, ol, il, c) ==
            [err |-> e, omnetics |-> ol, intan |-> il, calls |-> c]
    IN  IF Raised(o.err)
        THEN Outcome(o.err, NoLayout, NoLayout, <<"_require_omnetics_layout">>)
        ELSE IF Raised(i.err)
        THEN Outcome(i.err, o.layout, NoLayout,
                 <<"_require_omnetics_layout", "_require_intan_layout">>)
        ELSE IF Raised(l)
        THEN Outcome(l, o.layout, i.layout,
                 <<"_require_omnetics_layout", "_require_intan_layout",
                   "_validate_lengths">>)
        ELSE Outcome(v, o.layout, i.layout,
                 <<"_require_omnetics_layout", "_require_intan_layout",
                   "_validate_lengths", "_validate_version_suffixes">>)

(***************************************************************************)
(* Channel mapper                                                          *)
(***************************************************************************)
\* probe_index = {value: index for index, value in enumerate(pins)}:
\* zero-based, and a repeated value keeps its last index
ProbeIndex(pins) ==
    [v \in Range(pins) |->
        (CHOOSE i \in DOMAIN pins :
            pins[i] = v /\ \A j \in (i + 1)..Len(pins) : pins[j] # v) - 1]

\* intan_preamp[probe_index[ch]]: the value, or the error a subscript raises
Lookup(probe_index, intan_preamp, ch) ==
    IF ch \notin DOMAIN probe_index
    THEN [err |-> Error(KEY_ERROR, <<ch>>, {}), value |-> -1]
    ELSE IF probe_index[ch] >= Len(intan_preamp)
    THEN [err |-> Error(INDEX_ERROR, <<probe_index[ch]>>, {}), value |-> -1]
    ELSE [err |-> NoError, value |-> intan_preamp[probe_index[ch] + 1]]

\* a mapper that takes the channel number itself for the connector position
map_channel_indices_by_number(cm, omnetics, intan_preamp) ==
    [err |-> NoError,
     out |-> [i \in DOMAIN cm |->
                intan_preamp[((cm[i] - 1) % Len(intan_preamp)) + 1]]]

\* _map_channel_indices: the list, or the error of the first element that
\* raises
map_channel_indices(cm, omnetics, intan_preamp) ==
    LET probe_index == ProbeIndex(omnetics.pins)
        bad == {i \in DOMAIN cm : Raised(Lookup(probe_index, intan_preamp, cm[i]).err)}
    IN  IF bad # {}
        THEN [err |-> Lookup(probe_index, intan_preamp,
                          cm[CHOOSE i \in bad : \A j \in bad : i <= j]).err,
              out |-> <<>>]
        ELSE [err |-> NoError,
              out |-> [i \in DOMAIN cm |-> Lookup(probe_index, intan_preamp, cm[i]).value]]

(***************************************************************************)
(* Text formatting                                                         *)
(***************************************************************************)
Digits == <<"0", "1", "2", "3", "4", "5", "6", "7", "8", "9">>

\* str(v) of an integer, as its characters
RECURSIVE str(_)
str(v) ==
    IF v < 0 THEN <<"-">> \o str(-v)
    ELSE IF v < 10 THEN <<Digits[v + 1]>>
    ELSE str(v \div 10) \o <<Digits[(v % 10) + 1]>>

\* sep.join(parts)
RECURSIVE join(_, _)
join(sep, parts) ==
    IF parts = <<>> THEN <<>>
    ELSE IF Len(parts) = 1 THEN parts[1]
    ELSE parts[1] \o sep \o join(sep, Tail(parts))

\* The value of "start" when the loop over chan_per_shank reaches shank i
ShankStart(cps, i) == Sum(SubSeq(cps, 1, i - 1))

\* mapped[start:end] of shank i, in _format_lines and _generate_xml
ShankChannels(mapped, cps, i) ==
    PySlice(mapped, ShankStart(cps, i), ShankStart(cps, i) + cps[i])

\* _format_lines: f"shank{shank_idx}: {' '.join(str(v) for v in mapped[start:end])}"
format_lines(mapped, cps) ==
    [i \in DOMAIN cps |->
        LET shank_channels == ShankChannels(mapped, cps, i)
        IN  <<"s", "h", "a", "n", "k">> \o str(i) \o <<":", " ">>
            \o join(<<" ">>, [j \in DOMAIN shank_channels |-> str(shank_channels[j])])]

\* f"{self.probe_type}_{self.probe_name}_{suffix}.{ext}" under basepath
Path(s, suffix, ext) == <<s.probe_type, s.probe_name, suffix, ext>>

\* _format_report: the report lines (joined by "\n" when printed)
format_report(s, mapped, flipped_) ==
    <<<<"Contents of ", Path(s, s.version_suffixes[1], "txt"), ":">>>>
    \o format_lines(mapped, s.chan_per_shank)
    \o << <<>>, <<"Contents of ", Path(s, s.version_suffixes[2], "txt"), ":">> >>
    \o format_lines(flipped_, s.chan_per_shank)

\* sorted(S) of a non-empty or empty set of integers
sorted(S) ==
    IF S = {} THEN <<>>
    ELSE LET lo == CHOOSE x \in S : \A y \in S : x <= y
             hi == CHOOSE x \in S : \A y \in S : y <= x
         IN  SelectSeq([i \in 1..(hi - lo + 1) |-> lo + i - 1],
                       LAMBDA x : x \in S)

CHANNEL_COLOR == "#0080ff"

EXTRA_COLOR == "#ffffff"

\* _generate_xml, as the document's channel content: nChannels, the
\* anatomical groups (channel, skip flag), the spike-detection groups and
\* the per-channel colour records.  The remaining elements are the
\* NeuroscopeParams numbers, written as they are.
generate_xml(mapped, cps, p) ==
    LET skip_set == Range(p.skip_channels)
        extra_channels == p.extra_channels
        num_shanks == Len(cps)
        Anat(i) ==
            (LET shank_channels == ShankChannels(mapped, cps, i)
             IN  [j \in DOMAIN shank_channels |->
                    [channel |-> shank_channels[j],
                     skip |-> IF shank_channels[j] \in skip_set
                              THEN "1" ELSE "0"]])
            \o (IF i - 1 = num_shanks - 1 /\ extra_channels # <<>>
                THEN [j \in DOMAIN extra_channels |->
                        [channel |-> extra_channels[j], skip |-> "1"]]
                ELSE <<>>)
        Spike(i) ==
            SelectSeq(ShankChannels(mapped, cps, i), LAMBDA ch : ch \notin skip_set)
        all_channels == sorted(Range(mapped) \cup Range(extra_channels))
    IN  [nChannels |-> Len(mapped) + Len(extra_channels),
         anatomical |-> [i \in DOMAIN cps |-> Anat(i)],
         spike |-> [i \in DOMAIN cps |-> Spike(i)],
         channels |-> [j \in DOMAIN all_channels |->
                        [channel |-> all_channels[j],
                         color |-> IF all_channels[j] \in Range(extra_channels)
                                   THEN EXTRA_COLOR ELSE CHANNEL_COLOR,
                         anatomyColor |-> CHANNEL_COLOR]]]

\* path.write_text(content): the file is created or replaced
WriteText(fs, path, content) ==
    [q \in DOMAIN fs \cup {path} |-> IF q = path THEN content ELSE fs[q]]

(***************************************************************************)
(* Inputs of a request                                                     *)
(***************************************************************************)
\* (probe_type, probe_connector) arguments: the four supported pairs, one
\* written in another case, and two unsupported ones
ProbeInputs ==
    {<<"neuronexus", "H16">>, <<"neuronexus", "H32">>, <<"neuronexus", "H64">>,
     <<"neuronexus", "H64LP">>, <<"NeuroNexus", "h16">>,
     <<"neuronexus", "H999">>, <<"Cambridge", "h64lp">>}

\* The channel count the caller of a request has in mind: that of the
\* connector, and 16 for a connector that has no layout
ChannelCount(p) ==
    LET key == <<lower(p[1]), upper(p[2])>>
    IN  IF key \in DOMAIN OMNETICS_LAYOUTS
        THEN Len(OMNETICS_LAYOUTS[key].pins) ELSE 16

\* list(range(1, m + 1))
Identity(m) == [i \in 1..m |-> i]

Rotate(s, r) == [i \in DOMAIN s |-> s[((i - 1 + r) % Len(s)) + 1]]

\* channel_map arguments for m channels: rotations of 1..m and the pin
\* order of each m-pin connector (permutations), a repeated channel, the
\* values 0 and m+1 that no connector has, and a list one channel short
ChannelMapInputs(m) ==
    {Rotate(Identity(m), r) : r \in 0..MaxRot}
    \cup {OMNETICS_LAYOUTS[k].pins :
            k \in {q \in DOMAIN OMNETICS_LAYOUTS : Len(OMNETICS_LAYOUTS[q].pins) = m}}
    \cup {[Identity(m) EXCEPT ![2] = 1],
          [Identity(m) EXCEPT ![1] = 0],
          [Identity(m) EXCEPT ![m] = m + 1],
          SubSeq(Identity(m), 1, m - 1)}

EqualSplit(m, k) ==
    [i \in 1..k |-> IF i < k THEN m \div k ELSE m - (k - 1) * (m \div k)]

\* chan_per_shank arguments for m channels: equal shanks, a wrong sum, an
\* empty shank, and lists that hold a negative count yet sum to m
ChanPerShankInputs(m) ==
    {EqualSplit(m, k) : k \in 1..MaxShanks}
    \cup {<<m - 1>>, <<m, 0>>, <<-1, m + 1>>, <<m + 1, -2, 1>>}

VersionSuffixInputs ==
    {<<"version1", "version2">>, <<"a", "a">>, <<"a">>, <<"", "b">>}

\* NeuroscopeParams arguments (skip_channels, extra_channels): the
\* defaults, the documented use (a skipped probe channel, extra channels
\* numbered after the probe's), and extra channels that name a probe channel
XmlParamInputs(m) ==
    {[skip_channels |-> <<>>, extra_channels |-> <<>>],
     [skip_channels |-> <<5>>, extra_channels |-> <<m, m + 1>>],
     [skip_channels |-> <<>>, extra_channels |-> <<5, m>>]}

(***************************************************************************)
(* State                                                                   *)
(***************************************************************************)
VARIABLES
    pc,                      \* position of the request
    self,                    \* the ProbeMapper's attributes
    calls,                   \* validation helpers __init__ has called
    err,                     \* the exception that ended the request
    device_channel_indices,  \* compute(): normal mapping
    flipped_channel_indices, \* compute(): flipped mapping
    files,                   \* basepath: path -> content
    writes,                  \* paths written, in order
    stdout                   \* what compute() printed

vars == <<pc, self, calls, err, device_channel_indices,
          flipped_channel_indices, files, writes, stdout>>

Init ==
    /\ pc = "new"
    /\ self = [channel_map |-> <<>>, chan_per_shank |-> <<>>,
               probe_type |-> "", probe_connector |-> "", probe_name |-> "",
               export_txt |-> FALSE, export_xml |-> TRUE,
               xml_params |-> [skip_channels |-> <<>>, extra_channels |-> <<>>],
               version_suffixes |-> <<>>,
               omnetics_layout |-> NoLayout, intan_layout |-> NoLayout]
    /\ calls = <<>>
    /\ err = NoError
    /\ device_channel_indices = <<>>
    /\ flipped_channel_indices = <<>>
    /\ files = <<>>
    /\ writes = <<>>
    /\ stdout = <<>>

(***************************************************************************)
(* ProbeMapper.__init__                                                    *)
(***************************************************************************)
ProbeMapper(cm, cps, pt, pcn, et, ex, xp, vs) ==
    /\ pc = "new"
    /\ LET key == <<lower(pt), upper(pcn)>>
           v   == init_validation(key, cm, cps, vs)
       IN  /\ self' = [channel_map |-> cm, chan_per_shank |-> cps,
                       probe_type |-> key[1], probe_connector |-> key[2],
                       probe_name |-> "A1x16",
                       export_txt |-> et, export_xml |-> ex,
                       xml_params |-> xp,
                       version_suffixes |-> vs,
                       omnetics_layout |-> v.omnetics,
                       intan_layout |-> v.intan]
           /\ calls' = v.calls
           /\ err' = v.err
           /\ pc' = IF Raised(v.err) THEN "init_raised" ELSE "ready"
    /\ UNCHANGED <<device_channel_indices, flipped_channel_indices,
                   files, writes, stdout>>

(***************************************************************************)
(* ProbeMapper.compute, statement by statement                             *)
(***************************************************************************)
\* lines 255-258: both mappings, then the unpacking of version_suffixes
compute_map ==
    /\ pc = "ready"
    /\ LET a == map_channel_indices(self.channel_map, self.omnetics_layout,
                                    self.intan_layout.pins)
           b == map_channel_indices(self.channel_map, self.omnetics_layout,
                                    flipped(self.intan_layout))
           e == IF Raised(a.err) THEN a.err ELSE b.err
       IN  /\ err' = e
           /\ device_channel_indices' = a.out
           /\ flipped_channel_indices' = IF Raised(a.err) THEN <<>> ELSE b.out
           /\ pc' = IF Raised(e) THEN "compute_raised" ELSE "txt"
    /\ UNCHANGED <<self, calls, files, writes, stdout>>

\* _save_txt: "\n".join(lines) written to the .txt path
save_txt(mapped, suffix) ==
    /\ files' = WriteText(files, Path(self, suffix, "txt"),
                     join(<<"\n">>, format_lines(mapped, self.chan_per_shank)))
    /\ writes' = Append(writes, Path(self, suffix, "txt"))

\* _save_xml
save_xml(mapped, suffix) ==
    /\ files' = WriteText(files, Path(self, suffix, "xml"),
                     generate_xml(mapped, self.chan_per_shank, self.xml_params))
    /\ writes' = Append(writes, Path(self, suffix, "xml"))

\* line 261
save_txt_a ==
    /\ pc = "txt" /\ self.export_txt
    /\ save_txt(device_channel_indices, self.version_suffixes[1])
    /\ pc' = "txt_b"
    /\ UNCHANGED <<self, calls, err, device_channel_indices,
                   flipped_channel_indices, stdout>>

\* lines 262-264
save_txt_b ==
    /\ pc = "txt_b"
    /\ save_txt(flipped_channel_indices, self.version_suffixes[2])
    /\ stdout' = stdout \o
           << <<"Saved: ", Path(self, self.version_suffixes[1], "txt")>>,
              <<"Saved: ", Path(self, self.version_suffixes[2], "txt")>> >>
    /\ pc' = "xml"
    /\ UNCHANGED <<self, calls, err, device_channel_indices,
                   flipped_channel_indices>>

\* line 260, export_txt false
skip_txt ==
    /\ pc = "txt" /\ ~self.export_txt
    /\ pc' = "xml"
    /\ UNCHANGED <<self, calls, err, device_channel_indices,
                   flipped_channel_indices, files, writes, stdout>>

\* line 267
save_xml_a ==
    /\ pc = "xml" /\ self.export_xml
    /\ save_xml(device_channel_indices, self.version_suffixes[1])
    /\ pc' = "xml_b"
    /\ UNCHANGED <<self, calls, err, device_channel_indices,
                   flipped_channel_indices, stdout>>

\* lines 268-270
save_xml_b ==
    /\ pc = "xml_b"
    /\ save_xml(flipped_channel_indices, self.version_suffixes[2])
    /\ stdout' = stdout \o
           << <<"Saved: ", Path(self, self.version_suffixes[1], "xml")>>,
              <<"Saved: ", Path(self, self.version_suffixes[2], "xml")>> >>
    /\ pc' = "report"
    /\ UNCHANGED <<self, calls, err, device_channel_indices,
                   flipped_channel_indices>>

\* line 266, export_xml false
skip_xml ==
    /\ pc = "xml" /\ ~self.export_xml
    /\ pc' = "report"
    /\ UNCHANGED <<self, calls, err, device_channel_indices,
                   flipped_channel_indices, files, writes, stdout>>

\* line 272
print_report ==
    /\ pc = "report"
    /\ stdout' = Append(stdout,
           format_report(self, device_channel_indices, flipped_channel_indices))
    /\ pc' = "done"
    /\ UNCHANGED <<self, calls, err, device_channel_indices,
                   flipped_channel_indices, files, writes>>

Construct ==
    /\ pc = "new"
    /\ \E p \in ProbeInputs :
        \E cm \in ChannelMapInputs(ChannelCount(p)),
           cps \in ChanPerShankInputs(ChannelCount(p)),
           et \in BOOLEAN, ex \in BOOLEAN,
           xp \in XmlParamInputs(ChannelCount(p)),
           vs \in VersionSuffixInputs :
            ProbeMapper(cm, cps, p[1], p[2], et, ex, xp, vs)

Next ==
    \/ Construct
    \/ compute_map
    \/ save_txt_a
    \/ save_txt_b
    \/ skip_txt
    \/ save_xml_a
    \/ save_xml_b
    \/ skip_xml
    \/ print_report

Spec == Init /\ [][Next]_vars

(***************************************************************************)
(* Definitions used to state the properties                                *)
(***************************************************************************)
Key == <<self.probe_type, self.probe_connector>>

Supported == Key \in DOMAIN OMNETICS_LAYOUTS

Constructed == pc \notin {"new", "init_raised"}

Mapped == pc \in {"txt", "txt_b", "xml", "xml_b", "report", "done"}

NoDuplicates(s) == Cardinality(Range(s)) = Len(s)

\* zero-based position of channel c in the connector's pin sequence
PositionOf(pins, c) == CHOOSE q \in 0..(Len(pins) - 1) : pins[q + 1] = c

AllChannelsKnown ==
    Range(self.channel_map) \subseteq Range(self.omnetics_layout.pins)

IsPermutationOfPins ==
    /\ Len(self.channel_map) = Len(self.omnetics_layout.pins)
    /\ Range(self.channel_map) = Range(self.omnetics_layout.pins)

\* C1: once compute() has mapped a constructed request whose channels all
\* occur in the Omnetics layout, the normal mapping is as long as
\* channel_map and its i-th element is intan_pins[p_i], p_i the zero-based
\* position of channel_map[i] in the Omnetics pin sequence; in particular
\* the mapping did not raise.
C1_NormalMapping ==
    (Constructed /\ pc # "ready" /\ AllChannelsKnown) =>
        /\ Mapped
        /\ Len(device_channel_indices) = Len(self.channel_map)
        /\ \A i \in DOMAIN self.channel_map :
              device_channel_indices[i] =
                self.intan_layout.pins[
                    PositionOf(self.omnetics_layout.pins, self.channel_map[i]) + 1]

C1_Witness ==
    /\ pc = "txt"
    /\ self.probe_connector = "H64LP"
    /\ self.channel_map[2] = 1
    /\ Len(device_channel_indices) = 64

\* C2: the i-th element of the flipped mapping is
\* intan_pins[len(intan_pins) - 1 - p_i], with intan_pins the stored order.
C2_FlippedIsMirror ==
    (Mapped /\ AllChannelsKnown) =>
        /\ Len(flipped_channel_indices) = Len(self.channel_map)
        /\ \A i \in DOMAIN self.channel_map :
              flipped_channel_indices[i] =
                self.intan_layout.pins[
                    (Len(self.intan_layout.pins) - 1
                     - PositionOf(self.omnetics_layout.pins, self.channel_map[i])) + 1]

C2_Witness ==
    /\ pc = "done"
    /\ self.probe_connector = "H16"
    /\ self.channel_map = Rotate(Identity(16), 1)
    /\ flipped_channel_indices # device_channel_indices
    /\ Len(flipped_channel_indices) = 16

\* C5: a request whose key (probe_type lower-cased, probe_connector
\* upper-cased, as the constructor looks it up) is not in OMNETICS_LAYOUTS
\* ends in the constructor with the unsupported-probe error, which lists
\* every key of OMNETICS_LAYOUTS; _require_omnetics_layout is the only
\* helper reached, no Intan layout is assigned, nothing is mapped or written.
C5_UnsupportedFailsFirst ==
    (pc # "new" /\ ~Supported) =>
        /\ pc = "init_raised"
        /\ err.kind = UNSUPPORTED
        /\ err.about = Key
        /\ \A k \in DOMAIN OMNETICS_LAYOUTS : <<k[1], "-", k[2]>> \in err.known
        /\ calls = <<"_require_omnetics_layout">>
        /\ self.omnetics_layout = NoLayout
        /\ self.intan_layout = NoLayout
        /\ device_channel_indices = <<>>
        /\ flipped_channel_indices = <<>>
        /\ writes = <<>>

C5_Witness ==
    /\ pc = "init_raised"
    /\ Key = <<"cambridge", "H64LP">>
    /\ Len(self.channel_map) = 15
    /\ self.chan_per_shank = <<15>>
    /\ self.version_suffixes = <<"a">>
    /\ err.kind = UNSUPPORTED

\* The request fails one of the validations of the specification
InvalidRequest ==
    \/ ~Supported
    \/ Len(self.channel_map) # Len(OMNETICS_LAYOUTS[Key].pins)
    \/ Sum(self.chan_per_shank) # Len(self.channel_map)
    \/ ~(Range(self.channel_map) \subseteq Range(OMNETICS_LAYOUTS[Key].pins))

\* C8: a request that fails validation (unknown probe/connector, channel_map
\* length mismatch, chan_per_shank sum mismatch, channel_map value absent
\* from the Omnetics layout) never reaches a save statement: no file exists
\* and no write has happened in any state of it.
C8_NoWriteOnInvalid ==
    (pc # "new" /\ InvalidRequest) =>
        /\ pc \in {"init_raised", "ready", "compute_raised"}
        /\ DOMAIN files = {}
        /\ writes = <<>>
        /\ stdout = <<>>

C8_Witness ==
    /\ pc = "compute_raised"
    /\ err.kind = KEY_ERROR
    /\ self.export_txt /\ self.export_xml
    /\ DOMAIN files = {}

\* C9: every key of OMNETICS_LAYOUTS has a layout without repeated pins,
\* INTAN_LAYOUTS has an entry for its pin count, and the two pin sequences
\* are equally long; so a constructor that found the Omnetics layout finds
\* an Intan layout of the same length.
C9_LayoutTables ==
    /\ \A k \in DOMAIN OMNETICS_LAYOUTS :
          /\ NoDuplicates(OMNETICS_LAYOUTS[k].pins)
          /\ Len(OMNETICS_LAYOUTS[k].pins) \in DOMAIN INTAN_LAYOUTS
          /\ Len(INTAN_LAYOUTS[Len(OMNETICS_LAYOUTS[k].pins)].pins)
               = Len(OMNETICS_LAYOUTS[k].pins)
    /\ (pc # "new" /\ Supported) =>
          /\ err.kind # NO_INTAN
          /\ self.omnetics_layout = OMNETICS_LAYOUTS[Key]
          /\ NoDuplicates(self.omnetics_layout.pins)
          /\ Len(self.intan_layout.pins) = Len(self.omnetics_layout.pins)

C9_Witness ==
    /\ pc = "ready"
    /\ Key = <<"neuronexus", "H32">>
    /\ self.intan_layout.name = "intan32"
    /\ Len(self.omnetics_layout.pins) = 32

\* C10: when channel_map is a permutation of the Omnetics layout's n pins,
\* the normal and the flipped mapping each hold every Intan channel number
\* 0..n-1 exactly once.
C10_MappingsArePermutations ==
    (Mapped /\ IsPermutationOfPins) =>
        LET n == Len(self.omnetics_layout.pins)
        IN  /\ Len(device_channel_indices) = n
            /\ Range(device_channel_indices) = 0..(n - 1)
            /\ Len(flipped_channel_indices) = n
            /\ Range(flipped_channel_indices) = 0..(n - 1)

C10_Witness ==
    /\ pc = "report"
    /\ Key = <<"neuronexus", "H64">>
    /\ self.channel_map = NeuronexusH64LP.pins
    /\ Range(device_channel_indices) = 0..63

(***************************************************************************)
(* Reading a "shank<N>: <channels>" line back                              *)
(***************************************************************************)
DigitValue(c) == (CHOOSE d \in DOMAIN Digits : Digits[d] = c) - 1

RECURSIVE ParseInt(_)
ParseInt(tok) ==
    IF tok = <<>> THEN 0
    ELSE ParseInt(SubSeq(tok, 1, Len(tok) - 1)) * 10 + DigitValue(tok[Len(tok)])

\* the space-separated words of a character sequence
RECURSIVE Words(_)
Words(cs) ==
    IF cs = <<>> THEN <<>>
    ELSE LET stops == {i \in DOMAIN cs : cs[i] = " "}
             k == IF stops = {} THEN Len(cs) + 1
                  ELSE CHOOSE i \in stops : \A j \in stops : i <= j
         IN  (IF k > 1 THEN <<SubSeq(cs, 1, k - 1)>> ELSE <<>>)
             \o Words(SubSeq(cs, k + 1, Len(cs)))

\* the channel list of one line: the integers after "shank<N>: "
LineChannels(line) ==
    LET colon == CHOOSE i \in DOMAIN line : line[i] = ":"
        words == Words(SubSeq(line, colon + 1, Len(line)))
    IN  [i \in DOMAIN words |-> ParseInt(words[i])]

\* the channel lists of lines first..last of the printed report, concatenated
ReportChannels(first, last) ==
    Flatten([i \in 1..(last - first + 1) |->
                LineChannels(stdout[Len(stdout)][first + i - 1])])

\* C3: for every request the constructor accepts, the channel lists of the
\* per-shank lines of _format_lines (as printed in the report, normal then
\* flipped), concatenated in shank order, are the mapped sequence.
C3_PartitionRoundTrip ==
    pc = "done" =>
        LET k == Len(self.chan_per_shank)
        IN  /\ ReportChannels(2, k + 1) = device_channel_indices
            /\ ReportChannels(k + 4, 2 * k + 3) = flipped_channel_indices

\* The round trip for the shank partitions without a negative count
PartitionRoundTripNonNegative ==
    (pc = "done" /\ \A i \in DOMAIN self.chan_per_shank : self.chan_per_shank[i] >= 0) =>
        LET k == Len(self.chan_per_shank)
        IN  /\ ReportChannels(2, k + 1) = device_channel_indices
            /\ ReportChannels(k + 4, 2 * k + 3) = flipped_channel_indices

\* C4: a request for a supported connector whose channel_map has the right
\* length (and whose other arguments are valid) but holds a value that is
\* no pin of the Omnetics layout ends in the constructor, with an error
\* that names the offending value.
C4_UnknownChannelFailsConstruction ==
    (/\ pc # "new"
     /\ Supported
     /\ Len(self.channel_map) = Len(OMNETICS_LAYOUTS[Key].pins)
     /\ Sum(self.chan_per_shank) = Len(self.channel_map)
     /\ ~Raised(validate_version_suffixes(self.version_suffixes))
     /\ \E i \in DOMAIN self.channel_map :
           self.channel_map[i] \notin Range(OMNETICS_LAYOUTS[Key].pins)) =>
        /\ pc = "init_raised"
        /\ \E i \in DOMAIN self.channel_map :
              /\ self.channel_map[i] \notin Range(OMNETICS_LAYOUTS[Key].pins)
              /\ self.channel_map[i] \in Range(err.about)

\* C6: the constructor accepts version_suffixes only as a pair of two
\* distinct non-empty labels, so compute() writes no path twice.
C6_DistinctSuffixes ==
    /\ Constructed =>
          /\ Len(self.version_suffixes) = 2
          /\ self.version_suffixes[1] # ""
          /\ self.version_suffixes[2] # ""
          /\ self.version_suffixes[1] # self.version_suffixes[2]
    /\ NoDuplicates(writes)

\* C7: no spike-detection group of a written XML document holds a channel
\* number listed in skip_channels or in extra_channels.
C7_SpikeGroupsExcludeSkipAndExtra ==
    \A path \in DOMAIN files :
        path[4] = "xml" =>
            \A g \in DOMAIN files[path].spike :
                \A j \in DOMAIN files[path].spike[g] :
                    /\ files[path].spike[g][j]
                          \notin Range(self.xml_params.skip_channels)
                    /\ files[path].spike[g][j]
                          \notin Range(self.xml_params.extra_channels)

\* The spike-detection group of every shank is the shank's slice of the
\* mapping without the skipped channels
SpikeGroupsAreUnskippedShankChannels ==
    \A path \in DOMAIN files :
        path[4] = "xml" =>
            \A g \in DOMAIN files[path].spike :
                \A j \in DOMAIN files[path].spike[g] :
                    /\ files[path].spike[g][j]
                          \notin Range(self.xml_params.skip_channels)
                    /\ files[path].spike[g][j] \in
                          Range(device_channel_indices)
                          \cup Range(flipped_channel_indices)

====
